---- MODULE Spec2Model ----
(***************************************************************************)
(* Feasibility matching of the liver-exchange mechanism                    *)
(* (src/static_mechanisms/pair.py): the Pair record and transplant_type.   *)
(*                                                                         *)
(* The heap holds Pair objects; a thread calls transplant_type(donor,      *)
(* patient) on references into the heap and evaluates it step by step:     *)
(* the two attribute reads that build zip(patient.X, donor.Yl), one step   *)
(* of all(...) per zipped coordinate, then the same for donor.Yr.          *)
(*                                                                         *)
(* Vector coordinates are numbers that <= orders totally (the spec's       *)
(* "pre-validated" sizes and blood-type bits); NaN is outside the model.   *)
(***************************************************************************)
EXTENDS Integers, Sequences, FiniteSets

\* ---------------------------------------------------------------- bounds

\* Longest vector; vectors of length MinLen..MaxLen are built.
MaxLen == 2

\* Shortest vector.
MinLen == 1

\* Number of threads that may call transplant_type.
NumThreads == 2

\* ------------------------------------------------------------ data model

\* Coordinates are bits, as in the example domain T = B x S with
\* B = {0,1}^2 (blood-type bits) and S = {0,1} (size).
Vals == {0, 1}

Lens == MinLen .. MaxLen

VecsOf(n) == [1 .. n -> Vals]

Vecs == UNION {VecsOf(n) : n \in Lens}

Threads == 1 .. NumThreads

PairIds == {1, 2}

\* The dataclass Pair: one record per object.
Pair(id, X, Yl, Yr, willing, direct) ==
    [id |-> id, X |-> X, Yl |-> Yl, Yr |-> Yr, willing |-> willing, direct |-> direct]

\* Results of transplant_type; NoResult marks a thread that has not returned.
Left == "l"

Right == "r"

None == "None"

NoResult == "-"

VARIABLES
    pairs,    \* the heap: PairIds -> Pair record
    pc,       \* per thread: position in transplant_type
    donor,    \* per thread: the donor argument (a reference into pairs)
    patient,  \* per thread: the patient argument (a reference into pairs)
    xs,       \* per thread: the tuple zip iterates first (patient.X as read)
    ys,       \* per thread: the tuple zip iterates second (donor.Yl or donor.Yr as read)
    idx,      \* per thread: position of the zip iterator (1-based)
    result    \* per thread: the value returned by the last finished call

vars == <<pairs, pc, donor, patient, xs, ys, idx, result>>

\* The shape of the state: the heap maps references to Pair records, and
\* each thread is at one position of transplant_type.
TypeOK ==
    /\ DOMAIN pairs = PairIds
    /\ \A i \in PairIds :
          /\ DOMAIN pairs[i] = {"id", "X", "Yl", "Yr", "willing", "direct"}
          /\ pairs[i].willing \in BOOLEAN
          /\ pairs[i].direct \in BOOLEAN
    /\ pc \in [Threads ->
                {"off", "idle", "zip_left", "all_left", "zip_right", "all_right", "done"}]
    /\ donor \in [Threads -> PairIds \cup {0}]
    /\ patient \in [Threads -> PairIds \cup {0}]
    /\ idx \in [Threads -> Nat]
    /\ result \in [Threads -> {Left, Right, None, NoResult}]
    /\ \A t \in Threads : result[t] # NoResult <=> pc[t] = "done"

\* --------------------------------------------------- the pure function

\* Mutant: the comparison is strict.
Leq_Strict(px, y) == px < y

\* px <= yl, the comparison inside all(...).
Leq(px, y) == px <= y

\* Mutant: only the first zipped coordinate is compared.
ZipLen_First(a, b) == IF Len(a) >= 1 /\ Len(b) >= 1 THEN 1 ELSE 0

\* Mutant: tuples of different lengths yield no pairs at all.
ZipLen_Strict(a, b) == IF Len(a) = Len(b) THEN Len(a) ELSE 0

\* zip(a, b) stops at the shorter tuple: the number of pairs it yields.
ZipLen(a, b) == IF Len(a) <= Len(b) THEN Len(a) ELSE Len(b)

\* all(px <= y for px, y in zip(a, b)).
AllLeq(a, b) == \A i \in 1 .. ZipLen(a, b) : Leq(a[i], b[i])

\* transplant_type(donor, patient) evaluated in one piece on two Pair records.
transplant_type(d, p) ==
    IF AllLeq(p.X, d.Yl) THEN Left
    ELSE IF AllLeq(p.X, d.Yr) THEN Right
    ELSE None

\* ------------------------------------------------------------ heaps

\* A Pair whose fields are all independent of each other (as donor1 is
\* once line 71 has reassigned its Yl).
FreePairs(id) ==
    {Pair(id, x, yl, yr, w, d) :
        x \in Vecs, yl \in Vecs, yr \in Vecs, w \in BOOLEAN, d \in BOOLEAN}

\* A Pair built the way the example builds its patients: Yl and Yr are
\* dummies equal to X, willing and direct are False.
PatientPairs(id) == {Pair(id, x, x, x, FALSE, FALSE) : x \in Vecs}

\* Heaps of two objects over the bounded vectors.
Heaps ==
    {[i \in PairIds |-> IF i = 1 THEN p1 ELSE p2] :
        p1 \in FreePairs(1), p2 \in PatientPairs(2)}

\* A Pair over the shortest vectors, every field independent of every other.
ShortPairs(id) ==
    {Pair(id, x, yl, yr, w, d) :
        x \in VecsOf(MinLen), yl \in VecsOf(MinLen), yr \in VecsOf(MinLen),
        w \in BOOLEAN, d \in BOOLEAN}

\* The Pairs that share a's X or a's two threshold vectors and carry the
\* opposite willing and direct: as patient or as donor they give a call the
\* same vectors to compare as a does, and differ from a in the rest.
Variants(id, a) ==
    {Pair(id, x, yl, yr, ~a.willing, ~a.direct) :
        x \in VecsOf(MinLen), yl \in VecsOf(MinLen), yr \in VecsOf(MinLen)}
    \ {p \in ShortPairs(id) : p.X # a.X /\ (p.Yl # a.Yl \/ p.Yr # a.Yr)}

\* Heaps of an arbitrary Pair and one of its variants.
ShortHeaps ==
    UNION {{[i \in PairIds |-> IF i = 1 THEN p1 ELSE p2] : p2 \in Variants(2, p1)} :
              p1 \in ShortPairs(1)}

\* The objects of the example script.
donor1 == Pair(1, <<1, 1, 0>>, <<1, 1, 1>>, <<1, 1, 1>>, TRUE, FALSE)

patient1 == Pair(10, <<0, 1, 1>>, <<0, 1, 1>>, <<0, 1, 1>>, FALSE, FALSE)

donor2 == Pair(2, <<0, 1, 0>>, <<0, 1, 0>>, <<0, 1, 1>>, TRUE, FALSE)

patient2 == Pair(11, <<0, 1, 1>>, <<0, 1, 1>>, <<0, 1, 1>>, FALSE, FALSE)

donor3 == Pair(3, <<0, 0, 0>>, <<0, 0, 0>>, <<0, 0, 1>>, TRUE, FALSE)

patient3 == Pair(12, <<1, 0, 1>>, <<1, 0, 1>>, <<1, 0, 1>>, FALSE, FALSE)

\* Heaps of one donor and one patient of the example script.
ExampleHeaps ==
    {[i \in PairIds |-> IF i = 1 THEN d ELSE p] :
        d \in {donor1, donor2, donor3}, p \in {patient1, patient2, patient3}}

Empty == << >>

\* No call is in progress; the threads in started may call.
InitThreads(started) ==
    /\ pc = [t \in Threads |-> IF t \in started THEN "idle" ELSE "off"]
    /\ donor = [t \in Threads |-> 0]
    /\ patient = [t \in Threads |-> 0]
    /\ xs = [t \in Threads |-> Empty]
    /\ ys = [t \in Threads |-> Empty]
    /\ idx = [t \in Threads |-> 0]
    /\ result = [t \in Threads |-> NoResult]

\* One calling thread, as in the example script's loop.
Init == pairs \in Heaps /\ InitThreads({1})

\* Two callers on a Pair and one of its variants.
InitTwo == pairs \in ShortHeaps /\ InitThreads({1, 2})

\* Every thread calls, on the example script's objects.
InitConc == pairs \in ExampleHeaps /\ InitThreads(Threads)

\* ------------------------------------------------------------ the steps

\* The call: the arguments are bound.
Call(t, d, p) ==
    /\ pc[t] = "idle"
    /\ pc' = [pc EXCEPT ![t] = "zip_left"]
    /\ donor' = [donor EXCEPT ![t] = d]
    /\ patient' = [patient EXCEPT ![t] = p]
    /\ result' = [result EXCEPT ![t] = NoResult]
    /\ UNCHANGED <<pairs, xs, ys, idx>>

\* Mutant: the tuples are cut to their common length and stored back
\* into the two records.
ZipLeft_Normalises(t) ==
    /\ pc[t] = "zip_left"
    /\ xs' = [xs EXCEPT ![t] = pairs[patient[t]].X]
    /\ ys' = [ys EXCEPT ![t] = pairs[donor[t]].Yl]
    /\ idx' = [idx EXCEPT ![t] = 1]
    /\ pc' = [pc EXCEPT ![t] = "all_left"]
    /\ LET n == IF Len(pairs[patient[t]].X) <= Len(pairs[donor[t]].Yl)
                THEN Len(pairs[patient[t]].X) ELSE Len(pairs[donor[t]].Yl)
           cutX == [pairs EXCEPT ![patient[t]].X = SubSeq(@, 1, n)]
       IN  pairs' = [cutX EXCEPT ![donor[t]].Yl = SubSeq(@, 1, n)]
    /\ UNCHANGED <<donor, patient, result>>

\* Mutant: the iterator lives in one buffer that all callers share.
ZipLeft_Shared(t) ==
    /\ pc[t] = "zip_left"
    /\ xs' = [u \in Threads |-> pairs[patient[t]].X]
    /\ ys' = [u \in Threads |-> pairs[donor[t]].Yl]
    /\ idx' = [u \in Threads |-> 1]
    /\ pc' = [pc EXCEPT ![t] = "all_left"]
    /\ UNCHANGED <<pairs, donor, patient, result>>

\* zip(patient.X, donor.Yl): both attributes are read, the iterator starts.
ZipLeft(t) ==
    /\ pc[t] = "zip_left"
    /\ xs' = [xs EXCEPT ![t] = pairs[patient[t]].X]
    /\ ys' = [ys EXCEPT ![t] = pairs[donor[t]].Yl]
    /\ idx' = [idx EXCEPT ![t] = 1]
    /\ pc' = [pc EXCEPT ![t] = "all_left"]
    /\ UNCHANGED <<pairs, donor, patient, result>>

\* The function returns r: the frame's locals die.
Return(t, r) ==
    /\ pc' = [pc EXCEPT ![t] = "done"]
    /\ result' = [result EXCEPT ![t] = r]
    /\ xs' = [xs EXCEPT ![t] = Empty]
    /\ ys' = [ys EXCEPT ![t] = Empty]
    /\ idx' = [idx EXCEPT ![t] = 0]
    /\ UNCHANGED <<pairs, donor, patient>>

\* all(...) draws the next zipped coordinate and it compares true.
AllNext(t) ==
    /\ idx[t] <= ZipLen(xs[t], ys[t])
    /\ Leq(xs[t][idx[t]], ys[t][idx[t]])
    /\ idx' = [idx EXCEPT ![t] = idx[t] + 1]
    /\ UNCHANGED <<pairs, pc, donor, patient, xs, ys, result>>

\* all(...) meets a coordinate that compares false.
AllFalse(t) ==
    /\ idx[t] <= ZipLen(xs[t], ys[t])
    /\ ~Leq(xs[t][idx[t]], ys[t][idx[t]])

\* zip is exhausted: all(...) is true.
AllTrue(t) == idx[t] > ZipLen(xs[t], ys[t])

AllLeftNext(t) == pc[t] = "all_left" /\ AllNext(t)

\* Line 36 holds: return 'l'.
AllLeftTrue(t) == pc[t] = "all_left" /\ AllTrue(t) /\ Return(t, Left)

\* Mutant: a failed left-lobe check gives up at once.
AllLeftFalse_GivesUp(t) == pc[t] = "all_left" /\ AllFalse(t) /\ Return(t, None)

\* Line 36 fails: go on to the right lobe.
AllLeftFalse(t) ==
    /\ pc[t] = "all_left"
    /\ AllFalse(t)
    /\ pc' = [pc EXCEPT ![t] = "zip_right"]
    /\ xs' = [xs EXCEPT ![t] = Empty]
    /\ ys' = [ys EXCEPT ![t] = Empty]
    /\ idx' = [idx EXCEPT ![t] = 0]
    /\ UNCHANGED <<pairs, donor, patient, result>>

\* Mutant: the right-lobe check reads the left-lobe thresholds again.
ZipRight_ReadsYl(t) ==
    /\ pc[t] = "zip_right"
    /\ xs' = [xs EXCEPT ![t] = pairs[patient[t]].X]
    /\ ys' = [ys EXCEPT ![t] = pairs[donor[t]].Yl]
    /\ idx' = [idx EXCEPT ![t] = 1]
    /\ pc' = [pc EXCEPT ![t] = "all_right"]
    /\ UNCHANGED <<pairs, donor, patient, result>>

\* Mutant: the right-lobe iterator lives in one buffer that all callers share.
ZipRight_Shared(t) ==
    /\ pc[t] = "zip_right"
    /\ xs' = [u \in Threads |-> pairs[patient[t]].X]
    /\ ys' = [u \in Threads |-> pairs[donor[t]].Yr]
    /\ idx' = [u \in Threads |-> 1]
    /\ pc' = [pc EXCEPT ![t] = "all_right"]
    /\ UNCHANGED <<pairs, donor, patient, result>>

\* zip(patient.X, donor.Yr).
ZipRight(t) ==
    /\ pc[t] = "zip_right"
    /\ xs' = [xs EXCEPT ![t] = pairs[patient[t]].X]
    /\ ys' = [ys EXCEPT ![t] = pairs[donor[t]].Yr]
    /\ idx' = [idx EXCEPT ![t] = 1]
    /\ pc' = [pc EXCEPT ![t] = "all_right"]
    /\ UNCHANGED <<pairs, donor, patient, result>>

AllRightNext(t) == pc[t] = "all_right" /\ AllNext(t)

\* Mutant: the right lobe is offered only by a willing donor.
AllRightTrue_Willing(t) ==
    /\ pc[t] = "all_right"
    /\ AllTrue(t)
    /\ Return(t, IF pairs[donor[t]].willing THEN Right ELSE None)

\* Line 40 holds: return 'r'.
AllRightTrue(t) == pc[t] = "all_right" /\ AllTrue(t) /\ Return(t, Right)

\* Line 40 fails: return None.
AllRightFalse(t) == pc[t] = "all_right" /\ AllFalse(t) /\ Return(t, None)

\* The caller has used the result and is ready to call again.
Resume(t) ==
    /\ pc[t] = "done"
    /\ pc' = [pc EXCEPT ![t] = "idle"]
    /\ donor' = [donor EXCEPT ![t] = 0]
    /\ patient' = [patient EXCEPT ![t] = 0]
    /\ result' = [result EXCEPT ![t] = NoResult]
    /\ UNCHANGED <<pairs, xs, ys, idx>>

Next ==
    \E t \in Threads :
        \/ \E d \in PairIds, p \in PairIds : Call(t, d, p)
        \/ ZipLeft(t)
        \/ AllLeftNext(t)
        \/ AllLeftTrue(t)
        \/ AllLeftFalse(t)
        \/ ZipRight(t)
        \/ AllRightNext(t)
        \/ AllRightTrue(t)
        \/ AllRightFalse(t)
        \/ Resume(t)

Spec == Init /\ [][Next]_vars

SpecTwo == InitTwo /\ [][Next]_vars

SpecConc == InitConc /\ [][Next]_vars

\* ------------------------------------------------------------ properties

\* The call of thread t has returned.
Done(t) == pc[t] = "done"

\* The records thread t was called with.
DonorOf(t) == pairs[donor[t]]

PatientOf(t) == pairs[patient[t]]

\* The three vectors the call of thread t compares have one length.
SameLen(t) ==
    /\ Len(PatientOf(t).X) = Len(DonorOf(t).Yl)
    /\ Len(PatientOf(t).X) = Len(DonorOf(t).Yr)

\* x is component-wise <= y (vectors of one length).
Dominated(x, y) == \A i \in 1 .. Len(x) : x[i] <= y[i]

\* Some coordinate of x exceeds the corresponding coordinate of y.
Exceeds(x, y) == \E i \in 1 .. Len(x) : x[i] > y[i]

\* The shorter of two lengths.
MinOf(m, n) == IF m < n THEN m ELSE n

\* x is <= y on the overlapping prefix of the two vectors.
PrefixDominated(x, y) == \A i \in 1 .. MinOf(Len(x), Len(y)) : x[i] <= y[i]

\* C1: with equal-length vectors, a patient.X that is component-wise <=
\* donor.Yl always gets 'l', whatever donor.Yr holds.
C1_LeftFeasible ==
    \A t \in Threads :
        (Done(t) /\ SameLen(t) /\ Dominated(PatientOf(t).X, DonorOf(t).Yl))
            => result[t] = Left

\* A call returned 'l' although the right lobe is infeasible and Yr does
\* not dominate Yl.
C1_Witness ==
    \E t \in Threads :
        /\ Done(t) /\ SameLen(t)
        /\ Dominated(PatientOf(t).X, DonorOf(t).Yl)
        /\ Exceeds(PatientOf(t).X, DonorOf(t).Yr)
        /\ Exceeds(DonorOf(t).Yl, DonorOf(t).Yr)
        /\ result[t] = Left

\* C2: with equal-length vectors, the result is 'r' exactly when some
\* coordinate of patient.X exceeds donor.Yl and patient.X is component-wise
\* <= donor.Yr.
C2_RightFeasible ==
    \A t \in Threads :
        (Done(t) /\ SameLen(t)) =>
            (result[t] = Right <=>
                /\ Exceeds(PatientOf(t).X, DonorOf(t).Yl)
                /\ Dominated(PatientOf(t).X, DonorOf(t).Yr))

\* A call returned 'r' on equal-length vectors.
C2_Witness ==
    \E t \in Threads :
        /\ Done(t) /\ SameLen(t)
        /\ Exceeds(PatientOf(t).X, DonorOf(t).Yl)
        /\ Dominated(PatientOf(t).X, DonorOf(t).Yr)
        /\ result[t] = Right

\* C3: with equal-length vectors, the result is None exactly when some
\* coordinate of patient.X exceeds donor.Yl and some coordinate exceeds
\* donor.Yr.
C3_Infeasible ==
    \A t \in Threads :
        (Done(t) /\ SameLen(t)) =>
            (result[t] = None <=>
                /\ Exceeds(PatientOf(t).X, DonorOf(t).Yl)
                /\ Exceeds(PatientOf(t).X, DonorOf(t).Yr))

\* A call returned None where the coordinate that exceeds Yl is within Yr
\* and the coordinate that exceeds Yr is within Yl.
C3_Witness ==
    \E t \in Threads :
        /\ Done(t) /\ SameLen(t)
        /\ result[t] = None
        /\ \E i, j \in 1 .. Len(PatientOf(t).X) :
              /\ i # j
              /\ PatientOf(t).X[i] > DonorOf(t).Yl[i]
              /\ PatientOf(t).X[i] <= DonorOf(t).Yr[i]
              /\ PatientOf(t).X[j] > DonorOf(t).Yr[j]
              /\ PatientOf(t).X[j] <= DonorOf(t).Yl[j]

\* The call of thread t compared patient.X with a threshold vector of
\* another length (donor.Yr is compared only when the left check failed).
Mismatch(t) ==
    \/ Len(PatientOf(t).X) # Len(DonorOf(t).Yl)
    \/ result[t] # Left /\ Len(PatientOf(t).X) # Len(DonorOf(t).Yr)

\* C4: a call that compares vectors of different lengths fails with
\* DimensionMismatch and returns no feasibility result.
C4_DimensionMismatch ==
    \A t \in Threads :
        (Done(t) /\ Mismatch(t)) => result[t] \notin {Left, Right, None}

\* C5: no step of transplant_type changes any field of any Pair.
C5_NoMutation == [][pairs' = pairs]_vars

\* A call whose donor and patient are the same record has returned None,
\* having run both checks.
C5_Witness ==
    \E t \in Threads :
        /\ Done(t)
        /\ donor[t] = patient[t]
        /\ result[t] = None
        /\ pairs \in Heaps

\* C6: calls on identical inputs return identical results, however they are
\* ordered among calls on other inputs.
C6_Deterministic ==
    \A t, u \in Threads :
        (Done(t) /\ Done(u) /\ DonorOf(t) = DonorOf(u) /\ PatientOf(t) = PatientOf(u))
            => result[t] = result[u]

\* Two calls on the same donor and patient have both returned 'r'.
C6_Witness ==
    \E t, u \in Threads :
        /\ t # u
        /\ Done(t) /\ Done(u)
        /\ DonorOf(t) = DonorOf(u) /\ PatientOf(t) = PatientOf(u)
        /\ donor[t] # patient[t]
        /\ result[t] = Right /\ result[u] = Right

\* C7: under every interleaving each call returns what transplant_type
\* returns when evaluated alone, and no Pair record changes.
C7_Concurrent ==
    /\ [](\A t \in Threads :
            Done(t) => result[t] = transplant_type(DonorOf(t), PatientOf(t)))
    /\ [][pairs' = pairs]_vars

\* A call has returned 'r' while another call, sharing its donor record, is
\* in the middle of a check.
C7_Witness ==
    \E t, u \in Threads :
        /\ t # u
        /\ Done(t) /\ result[t] = Right
        /\ pc[u] \in {"all_left", "all_right"} /\ idx[u] > 1
        /\ donor[u] = donor[t]
        /\ patient[u] # patient[t]

\* C8: when the lengths differ, the result is the one the comparison of the
\* overlapping prefixes gives; the extra coordinates are ignored.
C8_Truncates ==
    \A t \in Threads :
        (Done(t) /\ ~SameLen(t)) =>
            result[t] =
                IF PrefixDominated(PatientOf(t).X, DonorOf(t).Yl) THEN Left
                ELSE IF PrefixDominated(PatientOf(t).X, DonorOf(t).Yr) THEN Right
                ELSE None

\* A call returned 'l' for a patient.X longer than donor.Yl whose extra
\* coordinate exceeds every threshold of the donor.
C8_Witness ==
    \E t \in Threads :
        /\ Done(t)
        /\ Len(PatientOf(t).X) > Len(DonorOf(t).Yl)
        /\ PatientOf(t).X[Len(PatientOf(t).X)] = 1
        /\ \A i \in 1 .. Len(DonorOf(t).Yl) : DonorOf(t).Yl[i] = 0
        /\ result[t] = Left

\* C9: two calls that agree on patient.X, donor.Yl and donor.Yr return the
\* same result, whatever the other fields of the two Pairs are.
C9_DependsOnlyOnVectors ==
    \A t, u \in Threads :
        (/\ Done(t) /\ Done(u)
         /\ PatientOf(t).X = PatientOf(u).X
         /\ DonorOf(t).Yl = DonorOf(u).Yl
         /\ DonorOf(t).Yr = DonorOf(u).Yr)
            => result[t] = result[u]

\* Two calls on one patient that agree on the three vectors and differ in
\* the donor's id, X, willing and direct have both returned 'r', one of
\* them from an unwilling donor.
C9_Witness ==
    \E t, u \in Threads :
        /\ Done(t) /\ Done(u)
        /\ PatientOf(t).X = PatientOf(u).X
        /\ DonorOf(t).Yl = DonorOf(u).Yl
        /\ DonorOf(t).Yr = DonorOf(u).Yr
        /\ DonorOf(t).id # DonorOf(u).id
        /\ DonorOf(t).X # DonorOf(u).X
        /\ DonorOf(t).willing # DonorOf(u).willing
        /\ DonorOf(t).direct # DonorOf(u).direct
        /\ result[t] = Right /\ result[u] = Right

\* C10: when donor.Yr dominates donor.Yl (equal-length vectors), the result
\* is None exactly when patient.X is not component-wise <= donor.Yr, and a
\* result of 'l' implies that the right-lobe check holds too.
C10_UnderDominance ==
    \A t \in Threads :
        (Done(t) /\ SameLen(t) /\ Dominated(DonorOf(t).Yl, DonorOf(t).Yr)) =>
            /\ result[t] = None <=> ~Dominated(PatientOf(t).X, DonorOf(t).Yr)
            /\ result[t] = Left => Dominated(PatientOf(t).X, DonorOf(t).Yr)

\* A call on a donor whose Yr dominates Yl has returned None, and the heap
\* also holds a donor whose Yl is not dominated by Yr for which
\* transplant_type gives 'l' while the right lobe is infeasible.
C10_Witness ==
    /\ \E t \in Threads :
          /\ Done(t) /\ SameLen(t)
          /\ Dominated(DonorOf(t).Yl, DonorOf(t).Yr)
          /\ ~Dominated(PatientOf(t).X, DonorOf(t).Yr)
          /\ result[t] = None
    /\ \E d, p \in PairIds :
          /\ Len(pairs[p].X) = Len(pairs[d].Yl)
          /\ Len(pairs[p].X) = Len(pairs[d].Yr)
          /\ Exceeds(pairs[d].Yl, pairs[d].Yr)
          /\ Exceeds(pairs[p].X, pairs[d].Yr)
          /\ transplant_type(pairs[d], pairs[p]) = Left

====
